---- MODULE Spec2Model ----
\* Model of ir_code_extractor.py: the pipeline from threshold-crossing
\* timestamps to the TV-B-Gone table of on/off times and the packed list of
\* indices into it.  Times are held as integers of microseconds where the
\* script holds float milliseconds, so that "* 100" followed by astype(int)
\* is a truncating division by 10.
EXTENDS Integers, Sequences, FiniteSets, TLC

\* ---------------------------------------------------------------- bounds
MaxPairs == 5

\* on and off intervals (microseconds) the captured waveform may contain
OnUs == {1000, 1049, 1080}
OffUs == {500, 10000}

\* ------------------------------------------------------------- constants
CLUSTERING_DIVERGENCE_US == 5
max_bit_shift == 8
FillerUs == 10000
ByteMask == 256

VARIABLES pc, crossings_times, on_off_times_10us, on_off_time_keys, num_keys,
          i, anchors, last_key, key_vals, num_items, bits_per_index,
          curr_bit_shift, num_overflow_bits, byte, packed, pk, out

vars == <<pc, crossings_times, on_off_times_10us, on_off_time_keys, num_keys,
          i, anchors, last_key, key_vals, num_items, bits_per_index,
          curr_bit_shift, num_overflow_bits, byte, packed, pk, out>>

\* ---------------------------------------------------------------- helpers
Abs(x) == IF x < 0 THEN -x ELSE x

Pow2(n) == 2 ^ n

Last(s) == s[Len(s)]

RECURSIVE BitOr(_, _)
BitOr(a, b) ==
    IF a = 0 THEN b
    ELSE IF b = 0 THEN a
    ELSE (IF (a % 2 = 1) \/ (b % 2 = 1) THEN 1 ELSE 0)
         + 2 * BitOr(a \div 2, b \div 2)

ShiftLeft(x, s) == x * Pow2(s)

ShiftRight(x, s) == x \div Pow2(s)

\* Python 3 round(): nearest integer, ties to the even neighbour
Round(a, n) ==
    LET q == a \div n
        r == a % n
    IN  IF 2 * r < n THEN q
        ELSE IF 2 * r > n THEN q + 1
        ELSE IF q % 2 = 0 THEN q ELSE q + 1

\* math.ceil(k / 2)
CeilHalf(k) == (k + 1) \div 2

HexDigit(d) ==
    CASE d = 0 -> "0" [] d = 1 -> "1" [] d = 2 -> "2" [] d = 3 -> "3"
      [] d = 4 -> "4" [] d = 5 -> "5" [] d = 6 -> "6" [] d = 7 -> "7"
      [] d = 8 -> "8" [] d = 9 -> "9" [] d = 10 -> "a" [] d = 11 -> "b"
      [] d = 12 -> "c" [] d = 13 -> "d" [] d = 14 -> "e" [] d = 15 -> "f"

RECURSIVE HexDigits(_)
HexDigits(n) ==
    IF n < 16 THEN <<HexDigit(n)>>
    ELSE Append(HexDigits(n \div 16), HexDigit(n % 16))

\* hex(): "0x" followed by the lower-case digits, no leading zeros
hex(n) == <<"0", "x">> \o HexDigits(n)

\* ------------------------------------------------------------ the input
\* timestamps of the crossings: strictly increasing, alternately the end of
\* an off interval (a rising edge) and the end of an on interval
RECURSIVE Stamps(_, _)
Stamps(d, t0) ==
    IF Len(d) = 0 THEN <<t0>>
    ELSE <<t0>> \o Stamps(Tail(d), t0 + Head(d))

Durations(m) ==
    { d \in [1..m -> OnUs \cup OffUs] :
        \A j \in 1..m : IF j % 2 = 1 THEN d[j] \in OnUs ELSE d[j] \in OffUs }

Init ==
    /\ pc = "extract"
    /\ \/ crossings_times = <<>>
       \/ \E m \in 0..(2 * MaxPairs - 1) :
            \E d \in Durations(m) : crossings_times = Stamps(d, 0)
    /\ on_off_times_10us = <<>>
    /\ on_off_time_keys = <<>>
    /\ num_keys = 0
    /\ i = 0
    /\ anchors = <<>>
    /\ last_key = 0
    /\ key_vals = <<>>
    /\ num_items = 0
    /\ bits_per_index = 0
    /\ curr_bit_shift = max_bit_shift
    /\ num_overflow_bits = 0
    /\ byte = 0
    /\ packed = <<>>
    /\ pk = 0
    /\ out = <<>>

\* ------------------------------------------------------ pulse extraction
\* consecutive differences of the crossing timestamps
Diffs(t) == [j \in 1..(IF Len(t) = 0 THEN 0 ELSE Len(t) - 1) |-> t[j + 1] - t[j]]

\* a reshape that drops an unpaired trailing item instead of raising
ReshapableDropsOdd(s) == Len(s) >= 2

\* np.reshape(x, (-1, 2)) raises ValueError unless the size is even
Reshapable(s) == Len(s) % 2 = 0

Reshape(s) == [j \in 1..(Len(s) \div 2) |-> <<s[2 * j - 1], s[2 * j]>>]

\* (ms * 100).astype(int): truncation toward zero
To10us(us) == us \div 10

Extract ==
    /\ pc = "extract"
    /\ LET on_off_times_ms == Append(Diffs(crossings_times), FillerUs)
       IN  IF Reshapable(on_off_times_ms)
           THEN /\ on_off_times_10us' =
                     [j \in 1..(Len(on_off_times_ms) \div 2) |->
                        <<To10us(Reshape(on_off_times_ms)[j][1]),
                          To10us(Reshape(on_off_times_ms)[j][2])>>]
                /\ pc' = "cluster"
           ELSE /\ on_off_times_10us' = on_off_times_10us
                /\ pc' = "ValueError"
    /\ on_off_time_keys' = [x \in 1..Len(on_off_times_10us') |-> 0]
    /\ num_keys' = 0
    /\ UNCHANGED <<crossings_times, i, anchors, last_key, key_vals, num_items,
                   bits_per_index, curr_bit_shift, num_overflow_bits, byte,
                   packed, pk, out>>

\* ------------------------------------------------------------ clustering
\* an outer loop that starts a class at every pair
UnmatchedAlways(keys, idx) == TRUE

\* the outer loop's test: this pair has not already been matched
Unmatched(keys, idx) == keys[idx] = 0

\* an inner test that compares the on times only
MatchesOnOnly(each_pair, potential_pair) ==
    Abs(each_pair[1] - potential_pair[1]) < CLUSTERING_DIVERGENCE_US

\* the inner loop's test on a potential pair
Matches(each_pair, potential_pair) ==
    /\ Abs(each_pair[1] - potential_pair[1]) < CLUSTERING_DIVERGENCE_US
    /\ Abs(each_pair[2] - potential_pair[2]) < CLUSTERING_DIVERGENCE_US

\* the keys after the inner loop run for the pair at idx, which takes key k
InnerLoop(keys, idx, k) ==
    [count \in 1..Len(keys) |->
        IF count = idx THEN k
        ELSE IF Matches(on_off_times_10us[idx], on_off_times_10us[count])
             THEN k
             ELSE keys[count]]

\* one iteration of the outer loop; anchors records the pair that started
\* each class
ClusterStep ==
    /\ pc = "cluster"
    /\ i < Len(on_off_times_10us)
    /\ i' = i + 1
    /\ IF Unmatched(on_off_time_keys, i + 1)
       THEN /\ num_keys' = num_keys + 1
            /\ on_off_time_keys' = InnerLoop(on_off_time_keys, i + 1, num_keys')
            /\ anchors' = Append(anchors, i + 1)
       ELSE UNCHANGED <<num_keys, on_off_time_keys, anchors>>
    /\ UNCHANGED <<pc, crossings_times, on_off_times_10us, last_key, key_vals,
                   num_items, bits_per_index, curr_bit_shift,
                   num_overflow_bits, byte, packed, pk, out>>

ClusterEnd ==
    /\ pc = "cluster"
    /\ i = Len(on_off_times_10us)
    /\ last_key' = Last(on_off_time_keys)
    /\ key_vals' = <<>>
    /\ pc' = "average"
    /\ UNCHANGED <<crossings_times, on_off_times_10us, on_off_time_keys,
                   num_keys, i, anchors, num_items, bits_per_index,
                   curr_bit_shift, num_overflow_bits, byte, packed, pk, out>>

\* -------------------------------------------------------------- averaging
RECURSIVE Accum(_, _, _, _)
Accum(keys, unique_key, col, n) ==
    IF n = 0 THEN 0
    ELSE Accum(keys, unique_key, col, n - 1)
         + (IF keys[n] = unique_key THEN on_off_times_10us[n][col] ELSE 0)

NumItems(keys, unique_key) ==
    Cardinality({count \in 1..Len(keys) : keys[count] = unique_key})

\* one iteration of the loop over unique_key; a class without members makes
\* the division raise ZeroDivisionError
AverageStep ==
    /\ pc = "average"
    /\ Len(key_vals) < last_key
    /\ LET unique_key == Len(key_vals) + 1
           n == NumItems(on_off_time_keys, unique_key)
       IN  /\ num_items' = n
           /\ IF n = 0
              THEN /\ pc' = "ZeroDivisionError"
                   /\ key_vals' = key_vals
              ELSE /\ pc' = pc
                   /\ key_vals' = Append(key_vals,
                        <<Round(Accum(on_off_time_keys, unique_key, 1,
                                      Len(on_off_time_keys)), n),
                          Round(Accum(on_off_time_keys, unique_key, 2,
                                      Len(on_off_time_keys)), n)>>)
    /\ UNCHANGED <<crossings_times, on_off_times_10us, on_off_time_keys,
                   num_keys, i, anchors, last_key, bits_per_index,
                   curr_bit_shift, num_overflow_bits, byte, packed, pk, out>>

\* ------------------------------------------------- handling the last pair
\* the table indices the loop visits: range(0, last_key), here 1-based
SubstituteRange(lk) == 1..lk

\* the indices whose on time is near the last key's on time
Substitutes(vals, lk) ==
    {key_index \in SubstituteRange(lk) :
        Abs(vals[lk][1] - vals[key_index][1]) < CLUSTERING_DIVERGENCE_US}

Min(S) == CHOOSE x \in S : \A y \in S : x <= y

HandleLastPair ==
    /\ pc = "average"
    /\ Len(key_vals) = last_key
    /\ IF Substitutes(key_vals, last_key) # {}
       THEN /\ on_off_time_keys' =
                 [on_off_time_keys EXCEPT ![Len(on_off_time_keys)] =
                     Min(Substitutes(key_vals, last_key))]
            /\ key_vals' = SubSeq(key_vals, 1, Len(key_vals) - 1)
       ELSE UNCHANGED <<on_off_time_keys, key_vals>>
    /\ pc' = "rebase"
    /\ UNCHANGED <<crossings_times, on_off_times_10us, num_keys, i, anchors,
                   last_key, num_items, bits_per_index, curr_bit_shift,
                   num_overflow_bits, byte, packed, pk, out>>

\* ---------------------------------------------------------------- packing
\* floor in place of math.ceil
BitsPerIndexFloor(lk) == lk \div 2

BitsPerIndex(lk) == CeilHalf(lk)

\* the keys become zero-indexed and the packing state is initialised
Rebase ==
    /\ pc = "rebase"
    /\ on_off_time_keys' =
         [x \in 1..Len(on_off_time_keys) |-> on_off_time_keys[x] - 1]
    /\ curr_bit_shift' = max_bit_shift
    /\ bits_per_index' = BitsPerIndex(last_key)
    /\ num_overflow_bits' = 0
    /\ byte' = 0
    /\ packed' = <<>>
    /\ pk' = 0
    /\ pc' = "pack"
    /\ UNCHANGED <<crossings_times, on_off_times_10us, num_keys, i, anchors,
                   last_key, key_vals, num_items, out>>

\* one iteration of the packing loop
PackStep ==
    /\ pc = "pack"
    /\ pk < Len(on_off_time_keys)
    /\ pk' = pk + 1
    /\ LET key == on_off_time_keys[pk + 1]
       IN  IF curr_bit_shift - bits_per_index >= 0
           THEN /\ num_overflow_bits' = 0
                /\ curr_bit_shift' = curr_bit_shift - bits_per_index
                /\ byte' = BitOr(byte, ShiftLeft(key, curr_bit_shift'))
                /\ packed' = packed
           ELSE /\ num_overflow_bits' = bits_per_index - curr_bit_shift
                /\ packed' = Append(packed,
                      hex(BitOr(byte, ShiftRight(key, num_overflow_bits'))))
                /\ curr_bit_shift' = max_bit_shift - num_overflow_bits'
                /\ byte' = ShiftLeft(key, curr_bit_shift') % ByteMask
    /\ UNCHANGED <<pc, crossings_times, on_off_times_10us, on_off_time_keys,
                   num_keys, i, anchors, last_key, key_vals, num_items,
                   bits_per_index, out>>

\* the test that guards the append of the last byte
LastByteAppended(overflow) == overflow = 0

PackEnd ==
    /\ pc = "pack"
    /\ pk = Len(on_off_time_keys)
    /\ packed' = IF LastByteAppended(num_overflow_bits)
                 THEN Append(packed, hex(byte))
                 ELSE packed
    /\ pc' = "write"
    /\ UNCHANGED <<crossings_times, on_off_times_10us, on_off_time_keys,
                   num_keys, i, anchors, last_key, key_vals, num_items,
                   bits_per_index, curr_bit_shift, num_overflow_bits, byte,
                   pk, out>>

\* ----------------------------------------------------------------- output
header1 == <<"num. pairs", "bits per index">>
header2 == <<"times (x10us)">>
header3 == <<"codes">>

\* the size of the table written in place of the number of pairs
data1TableSize(keys, bits) == <<Len(key_vals), bits>>

data1(keys, bits) == <<Len(keys), bits>>

Write ==
    /\ pc = "write"
    /\ out' = <<header1, data1(on_off_time_keys, bits_per_index), header2>>
              \o key_vals \o <<header3>>
              \o [r \in 1..Len(packed) |-> <<packed[r]>>]
    /\ pc' = "done"
    /\ UNCHANGED <<crossings_times, on_off_times_10us, on_off_time_keys,
                   num_keys, i, anchors, last_key, key_vals, num_items,
                   bits_per_index, curr_bit_shift, num_overflow_bits, byte,
                   packed, pk>>

Next ==
    \/ Extract
    \/ ClusterStep
    \/ ClusterEnd
    \/ AverageStep
    \/ HandleLastPair
    \/ Rebase
    \/ PackStep
    \/ PackEnd
    \/ Write

Spec == Init /\ [][Next]_vars

\* ================================================================ claims
Packed == pc \in {"write", "done"}

Rebased == pc \in {"pack", "write", "done"}

\* C1: every entry of the final zero-based key sequence is an index into
\* the final table of key values: 0 <= k < N with N the length of key_vals.
C1_KeysIndexTable ==
    Rebased =>
        \A x \in 1..Len(on_off_time_keys) :
            /\ 0 <= on_off_time_keys[x]
            /\ on_off_time_keys[x] < Len(key_vals)

\* reading the emitted rows back: the value of a hex string, the bit at a
\* position of the MSB-first stream, and the field of width b at slot j
HexValue(c) ==
    CASE c = "0" -> 0 [] c = "1" -> 1 [] c = "2" -> 2 [] c = "3" -> 3
      [] c = "4" -> 4 [] c = "5" -> 5 [] c = "6" -> 6 [] c = "7" -> 7
      [] c = "8" -> 8 [] c = "9" -> 9 [] c = "a" -> 10 [] c = "b" -> 11
      [] c = "c" -> 12 [] c = "d" -> 13 [] c = "e" -> 14 [] c = "f" -> 15

RECURSIVE FromDigits(_, _)
FromDigits(s, acc) ==
    IF Len(s) = 0 THEN acc
    ELSE FromDigits(Tail(s), 16 * acc + HexValue(Head(s)))

FromHex(s) == FromDigits(SubSeq(s, 3, Len(s)), 0)

StreamBit(bytes, pos) ==
    (FromHex(bytes[(pos \div 8) + 1]) \div Pow2(7 - (pos % 8))) % 2

RECURSIVE Field(_, _, _, _)
Field(bytes, start, b, acc) ==
    IF b = 0 THEN acc
    ELSE Field(bytes, start + 1, b - 1, 2 * acc + StreamBit(bytes, start))

Decodes(bytes, b, keys) ==
    /\ \A r \in 1..Len(bytes) : FromHex(bytes[r]) < ByteMask
    /\ 8 * Len(bytes) >= b * Len(keys)
    /\ \A j \in 1..Len(keys) : Field(bytes, (j - 1) * b, b, 0) = keys[j]

\* C2: the packed bytes, read as one MSB-first bit stream cut into fields of
\* bits_per_index bits, give back the key sequence entry for entry.
C2_PackedDecodesToKeys ==
    Packed => Decodes(packed, bits_per_index, on_off_time_keys)

\* C3: the number of packed bytes is ceil(L * bits_per_index / 8) for a key
\* sequence of length L.
C3_PackedByteCount ==
    Packed =>
        Len(packed) = (Len(on_off_time_keys) * bits_per_index + 7) \div 8

\* C4 as stated: bits_per_index is ceil(N / 2) with N the number of entries
\* of the final table of key values.
C4_BitsFromTableSize ==
    Rebased => bits_per_index = (Len(key_vals) + 1) \div 2

\* C4 amended: bits_per_index is ceil(last_key / 2), where last_key is the
\* key the final pair holds when clustering ends, before the last pair is
\* handled; it is the width written to the output.
C4_BitsFromLastKey ==
    /\ pc = "average" => last_key = Last(on_off_time_keys)
    /\ Rebased =>
          /\ 2 * bits_per_index - 1 <= last_key
          /\ last_key <= 2 * bits_per_index
    /\ pc = "done" => out[2][2] = bits_per_index

C4_Witness ==
    /\ pc = "done"
    /\ last_key = 3
    /\ Len(key_vals) = 2
    /\ out[2][2] = 2

\* the row that holds the "codes" header: the first one-field row after
\* the "times" header
CodesRow ==
    CHOOSE r \in 4..Len(out) :
        /\ Len(out[r]) = 1
        /\ \A q \in 4..(r - 1) : Len(out[q]) = 2

\* C5 as stated: the first field of the row after the first header is N,
\* the size of the final table, which is the number of times rows written.
C5_FirstFieldIsTableSize ==
    pc = "done" =>
        /\ out[2][1] = Len(key_vals)
        /\ CodesRow - 4 = Len(key_vals)

\* C5 amended: the first field of the row after the first header is the
\* number of pulse pairs (the length of the key sequence); the rows between
\* the "times" and "codes" headers are the final table, N rows.
C5_FirstFieldIsPairCount ==
    pc = "done" =>
        /\ out[1] = header1
        /\ out[2][1] = Len(on_off_times_10us)
        /\ out[2][1] = Len(on_off_time_keys)
        /\ out[3] = header2
        /\ CodesRow - 4 = Len(key_vals)
        /\ \A r \in 1..Len(key_vals) : out[3 + r] = key_vals[r]
        /\ out[CodesRow] = header3

C5_Witness ==
    /\ pc = "done"
    /\ out[2][1] = 3
    /\ Len(key_vals) = 1
    /\ CodesRow = 5

\* no class other than the last key's own has an averaged on time within
\* tolerance of the last key's averaged on time
NoOtherSubstitute ==
    \A k \in 1..Len(key_vals) :
        k # last_key =>
            ~(Abs(key_vals[last_key][1] - key_vals[k][1])
                < CLUSTERING_DIVERGENCE_US)

\* C6: when no other class is a substitute, handling the last pair leaves
\* the key sequence and the table of key values unchanged.
C6_NoSubstituteNoChange ==
    [][(pc = "average" /\ pc' = "rebase" /\ NoOtherSubstitute)
          => (on_off_time_keys' = on_off_time_keys /\ key_vals' = key_vals)]_vars

\* C7: when clustering has ended, every pair is within tolerance, on both
\* the on and the off time, of the pair that started the class it is in.
C7_WithinToleranceOfAnchor ==
    pc = "average" =>
        \A p \in 1..Len(on_off_time_keys) :
            /\ on_off_time_keys[p] \in 1..Len(anchors)
            /\ LET a == on_off_times_10us[anchors[on_off_time_keys[p]]]
               IN  /\ Abs(on_off_times_10us[p][1] - a[1])
                        < CLUSTERING_DIVERGENCE_US
                   /\ Abs(on_off_times_10us[p][2] - a[2])
                        < CLUSTERING_DIVERGENCE_US

C7_Witness ==
    /\ pc = "average"
    /\ \E p \in 1..Len(on_off_time_keys) :
          /\ anchors[on_off_time_keys[p]] # p
          /\ on_off_times_10us[p]
                # on_off_times_10us[anchors[on_off_time_keys[p]]]

\* C8: a raw duration sequence of even length (empty included) never gets
\* past the pulse extraction: the run stops in the reshape's error and
\* neither table nor packed bytes are produced or written.
C8_EvenLengthStops ==
    Len(Diffs(crossings_times)) % 2 = 0 =>
        /\ pc \in {"extract", "ValueError"}
        /\ key_vals = <<>>
        /\ packed = <<>>
        /\ out = <<>>

C8_Witness ==
    /\ pc = "ValueError"
    /\ Len(Diffs(crossings_times)) = 2

\* the classes whose starting pair is the pair p or within tolerance of it
AnchorsNear(p) ==
    {k \in 1..Len(anchors) :
        \/ anchors[k] = p
        \/ Matches(on_off_times_10us[anchors[k]], on_off_times_10us[p])}

\* C9: while clustering runs, a pair that has a nonzero key keeps it, and so
\* when clustering has ended each pair has the key of the earliest pair that
\* started a class and is within tolerance of it.
C9_AssignedKeyNeverChanges ==
    /\ [][pc = "cluster" =>
            \A p \in 1..Len(on_off_time_keys) :
                on_off_time_keys[p] # 0 =>
                    on_off_time_keys'[p] = on_off_time_keys[p]]_vars
    /\ [](pc = "average" =>
            \A p \in 1..Len(on_off_time_keys) :
                /\ on_off_time_keys[p] \in AnchorsNear(p)
                /\ \A k \in AnchorsNear(p) : on_off_time_keys[p] <= k)

\* C10: when clustering has ended the keys in use are exactly 1..num_keys,
\* the pair that started a class is still in it, and the averaging never
\* meets a class without members (no division by zero).
C10_EveryClassHasItsAnchor ==
    /\ pc # "ZeroDivisionError"
    /\ pc = "average" =>
          /\ {on_off_time_keys[p] : p \in 1..Len(on_off_time_keys)}
                = 1..num_keys
          /\ Len(anchors) = num_keys
          /\ \A k \in 1..num_keys : on_off_time_keys[anchors[k]] = k
          /\ last_key \in 1..num_keys
          /\ Len(key_vals) > 0 => num_items >= 1

C10_Witness ==
    /\ pc = "average"
    /\ num_keys = 3
    /\ last_key = 3
    /\ Len(key_vals) = 3
    /\ num_items = 1
    /\ \E p \in 1..Len(on_off_time_keys) : anchors[on_off_time_keys[p]] # p
====
